---- MODULE Spec2Model ----
(***************************************************************************)
(* Model of the HTTP range-request header codec of http-types              *)
(* (src/range): ByteRange, ByteRanges (Range), ByteContentRange            *)
(* (Content-Range) and AcceptRanges (Accept-Ranges).                       *)
(*                                                                         *)
(* Strings are sequences of one-character strings, so that parsing and     *)
(* rendering are computed character by character as the code does.         *)
(* Option<T> is a sequence of length 0 (None) or 1 (Some(x)).              *)
(* u64 is scaled down to 0..U64_MAX; arithmetic keeps that width.          *)
(***************************************************************************)
EXTENDS Integers, Sequences, FiniteSets, TLC

VARIABLES
    overflow_checks,  \* build profile: TRUE = arithmetic overflow panics, FALSE = it wraps
    wire,             \* the header line under test: [name, value]
    headers,          \* the headers container: header name -> sequence of values
    obj,              \* the structured value being built / last parsed
    result            \* outcome of the last operation

vars == <<overflow_checks, wire, headers, obj, result>>

----------------------------------------------------------------------------
(* Bounds *)

\* u64::MAX, scaled down
U64_MAX == 7
\* most characters of a bare byte-range string received
MaxLen == 4
\* most tokens after the unit prefix of a Range or Content-Range value received
MaxTokens == 4
\* most ranges pushed to one ByteRanges
MaxRanges == 2
\* most values appended under one header name
MaxValues == 2

----------------------------------------------------------------------------
(* Option, Result, Error *)

None == <<>>
Some(x) == <<x>>
is_none(o) == o = <<>>
is_some(o) == o # <<>>
unwrap(o) == o[1]

RequestedRangeNotSatisfiable == 416
BadRequest == 400

RangeMsg == "Invalid Range header for byte ranges"
ContentRangeMsg == "Invalid Content-Range value"

Error_from_str(status, msg) == [status |-> status, msg |-> msg]

Ok(v) == [kind |-> "Ok", val |-> <<v>>, err |-> <<>>]
Err(e) == [kind |-> "Err", val |-> <<>>, err |-> <<e>>]
Panic == [kind |-> "Panic", val |-> <<>>, err |-> <<>>]
is_ok(r) == r.kind = "Ok"
is_err(r) == r.kind = "Err"

----------------------------------------------------------------------------
(* str and u64 primitives of the standard library, as the code uses them *)

Digits == <<"0", "1", "2", "3", "4", "5", "6", "7", "8", "9">>
is_ascii_digit(c) == \E i \in 1..10 : Digits[i] = c
to_digit(c) == (CHOOSE i \in 1..10 : Digits[i] = c) - 1
is_whitespace(c) == c \in {" ", "\t", "\n", "\r"}

RECURSIVE trim_start(_)
trim_start(s) ==
    IF s # <<>> /\ is_whitespace(Head(s)) THEN trim_start(Tail(s)) ELSE s

RECURSIVE trim_end(_)
trim_end(s) ==
    IF s # <<>> /\ is_whitespace(s[Len(s)])
    THEN trim_end(SubSeq(s, 1, Len(s) - 1))
    ELSE s

trim(s) == trim_end(trim_start(s))

starts_with(s, p) == Len(p) <= Len(s) /\ SubSeq(s, 1, Len(p)) = p

\* &s[n..]
skip(s, n) == SubSeq(s, n + 1, Len(s))

\* index of the first c in s, 0 when there is none
find(s, c) ==
    IF \E i \in 1..Len(s) : s[i] = c
    THEN CHOOSE i \in 1..Len(s) : s[i] = c /\ \A j \in 1..(i - 1) : s[j] # c
    ELSE 0

\* s.splitn(2, c), as the sequence of the items the iterator yields
splitn2(s, c) ==
    LET i == find(s, c)
    IN IF i = 0 THEN <<s>>
       ELSE <<SubSeq(s, 1, i - 1), SubSeq(s, i + 1, Len(s))>>

\* the k-th call of next() on an iterator that yields items
next(items, k) == IF k <= Len(items) THEN Some(items[k]) ELSE None

\* s.split(c), as the sequence of the items the iterator yields (never empty)
RECURSIVE split(_, _)
split(s, c) ==
    LET i == find(s, c)
    IN IF i = 0 THEN <<s>>
       ELSE <<SubSeq(s, 1, i - 1)>> \o split(SubSeq(s, i + 1, Len(s)), c)

\* the digit loop of u64::from_str: checked_mul(10) then checked_add(digit)
RECURSIVE u64_digits(_, _)
u64_digits(ds, acc) ==
    IF ds = <<>> THEN Some(acc)
    ELSE IF ~is_ascii_digit(Head(ds)) THEN None
    ELSE IF acc * 10 > U64_MAX THEN None
    ELSE IF acc * 10 + to_digit(Head(ds)) > U64_MAX THEN None
    ELSE u64_digits(Tail(ds), acc * 10 + to_digit(Head(ds)))

\* u64::from_str: an optional '+', then one or more digits, value <= u64::MAX;
\* Some(n), or None for a ParseIntError
u64_from_str(s) ==
    IF s = <<>> THEN None
    ELSE IF Len(s) = 1 /\ s[1] \in {"+", "-"} THEN None
    ELSE IF s[1] = "+" THEN u64_digits(Tail(s), 0)
    ELSE u64_digits(s, 0)

\* u64::to_string
RECURSIVE u64_to_string(_)
u64_to_string(n) ==
    IF n < 10 THEN <<Digits[n + 1]>>
    ELSE u64_to_string(n \div 10) \o <<Digits[(n % 10) + 1]>>

\* size - 1 on u64: panics with overflow checks, wraps without
u64_sub(a, b, checks) ==
    IF a >= b THEN Some(a - b)
    ELSE IF checks THEN None
    ELSE Some((a - b) + U64_MAX + 1)

----------------------------------------------------------------------------
(* ByteRange *)

ByteRange_new(start, end) == [start |-> start, end |-> end]

\* ByteRange::match_size: a bool, or a panic of the subtraction
ByteRange_match_size(self, size, checks) ==
    LET last == u64_sub(size, 1, checks)
    IN IF is_some(self.start) /\ is_none(last) THEN Panic
       ELSE IF is_some(self.start) /\ unwrap(self.start) > unwrap(last) THEN Ok(FALSE)
       ELSE IF is_some(self.end) /\ is_none(last) THEN Panic
       ELSE IF is_some(self.end) /\ unwrap(self.end) > unwrap(last) THEN Ok(FALSE)
       ELSE Ok(TRUE)

\* faulty variant: the bounds written in the wrong order
ByteRange_to_string_swapped(self) ==
    (IF is_some(self.end) THEN u64_to_string(unwrap(self.end)) ELSE <<>>)
    \o <<"-">> \o
    (IF is_some(self.start) THEN u64_to_string(unwrap(self.start)) ELSE <<>>)

\* impl Display for ByteRange
ByteRange_to_string(self) ==
    (IF is_some(self.start) THEN u64_to_string(unwrap(self.start)) ELSE <<>>)
    \o <<"-">> \o
    (IF is_some(self.end) THEN u64_to_string(unwrap(self.end)) ELSE <<>>)

\* str_to_bound: Ok(None) for a missing or empty field, Ok(Some(n)) or Err(416)
str_to_bound(s) ==
    IF is_none(s) \/ unwrap(s) = <<>> THEN Ok(None)
    ELSE LET n == u64_from_str(unwrap(s))
         IN IF is_some(n) THEN Ok(n)
            ELSE Err(Error_from_str(RequestedRangeNotSatisfiable, RangeMsg))

\* the fn_err closure of ByteRange::from_str
ByteRange_fn_err == Err(Error_from_str(RequestedRangeNotSatisfiable, RangeMsg))

\* faulty variant: the order of the two bounds is not checked
ByteRange_from_str_unordered(s) ==
    LET items == splitn2(trim(s), "-")
        start == str_to_bound(next(items, 1))
        end == str_to_bound(next(items, 2))
    IN IF is_err(start) THEN start
       ELSE IF is_err(end) THEN end
       ELSE IF is_none(unwrap(start.val)) /\ is_none(unwrap(end.val))
            THEN Err(Error_from_str(RequestedRangeNotSatisfiable, RangeMsg))
       ELSE Ok(ByteRange_new(unwrap(start.val), unwrap(end.val)))

\* impl FromStr for ByteRange
ByteRange_from_str(s) ==
    LET fn_err == ByteRange_fn_err
        items == splitn2(trim(s), "-")
        start == str_to_bound(next(items, 1))
        end == str_to_bound(next(items, 2))
    IN IF is_err(start) THEN start
       ELSE IF is_err(end) THEN end
       ELSE IF is_none(unwrap(start.val)) /\ is_none(unwrap(end.val)) THEN fn_err
       ELSE IF is_some(unwrap(start.val)) /\ is_some(unwrap(end.val))
               /\ unwrap(unwrap(end.val)) <= unwrap(unwrap(start.val)) THEN fn_err
       ELSE Ok(ByteRange_new(unwrap(start.val), unwrap(end.val)))

----------------------------------------------------------------------------
(* The headers container (crate::headers::Headers): name -> ordered values *)

RANGE == "range"
CONTENT_RANGE == "content-range"
ACCEPT_RANGES == "accept-ranges"
OTHER_HEADER == "content-type"
HeaderNames == {RANGE, CONTENT_RANGE, ACCEPT_RANGES, OTHER_HEADER}

Headers_new == [n \in HeaderNames |-> <<>>]

\* Headers::get: the values under the name, or None when there are none
Headers_get(h, name) == IF h[name] = <<>> THEN None ELSE Some(h[name])

\* Headers::insert: replaces every prior value of the name
Headers_insert(h, name, value) == [h EXCEPT ![name] = <<value>>]

\* Headers::append: adds one more value under the name
Headers_append(h, name, value) == [h EXCEPT ![name] = Append(@, value)]

\* faulty variant: the first value instead of the last
first(values) == values[1]

\* headers.iter().last().unwrap()
last(values) == values[Len(values)]

----------------------------------------------------------------------------
(* ByteRanges *)

RANGE_PREFIX == <<"b", "y", "t", "e", "s", "=">>

ByteRanges_new == [ranges |-> <<>>]

ByteRanges_push(self, start, end) ==
    [ranges |-> Append(self.ranges, ByteRange_new(start, end))]

\* the for loop of ByteRanges::match_size from the i-th range on
RECURSIVE match_size_loop(_, _, _, _)
match_size_loop(ranges, i, size, checks) ==
    IF i > Len(ranges) THEN Ok(<<>>)
    ELSE LET m == ByteRange_match_size(ranges[i], size, checks)
         IN IF m.kind = "Panic" THEN Panic
            ELSE IF ~unwrap(m.val)
                 THEN Err(Error_from_str(RequestedRangeNotSatisfiable, RangeMsg))
            ELSE match_size_loop(ranges, i + 1, size, checks)

ByteRanges_match_size(self, size, checks) ==
    match_size_loop(self.ranges, 1, size, checks)

\* the for loop of ByteRanges::from_str over the fragments from the i-th on
RECURSIVE from_str_loop(_, _, _)
from_str_loop(frags, i, acc) ==
    IF i > Len(frags) THEN Ok(acc)
    ELSE LET range == ByteRange_from_str(frags[i])
         IN IF is_err(range) THEN range
            ELSE from_str_loop(frags, i + 1, Append(acc, unwrap(range.val)))

\* the fn_err closure of ByteRanges::from_str
ByteRanges_fn_err == Err(Error_from_str(BadRequest, RangeMsg))

ByteRanges_from_str(s) ==
    LET fn_err == ByteRanges_fn_err
    IN IF ~starts_with(s, RANGE_PREFIX) THEN fn_err
       ELSE LET body == trim_start(skip(s, Len(RANGE_PREFIX)))
                ranges == from_str_loop(split(body, ","), 1, <<>>)
            IN IF is_err(ranges) THEN ranges
               ELSE IF unwrap(ranges.val) = <<>> THEN fn_err
               ELSE Ok([ranges |-> unwrap(ranges.val)])

\* Result::map(Some)
map_Some(r) == IF is_ok(r) THEN Ok(Some(unwrap(r.val))) ELSE r

\* faulty variant: the unit prefix is not looked at before parsing
ByteRanges_from_headers_any_unit(h) ==
    LET values == Headers_get(h, RANGE)
    IN IF is_none(values) THEN Ok(None)
       ELSE map_Some(ByteRanges_from_str(last(unwrap(values))))

ByteRanges_from_headers(h) ==
    LET values == Headers_get(h, RANGE)
    IN IF is_none(values) THEN Ok(None)
       ELSE LET s == last(unwrap(values))
            IN IF ~starts_with(s, RANGE_PREFIX) THEN Ok(None)
               ELSE map_Some(ByteRanges_from_str(s))

\* faulty variant: a space written after each comma
RECURSIVE fmt_ranges_spaced(_, _)
fmt_ranges_spaced(ranges, i) ==
    IF i > Len(ranges) THEN <<>>
    ELSE (IF i > 1 THEN <<",", " ">> ELSE <<>>)
         \o ByteRange_to_string(ranges[i]) \o fmt_ranges_spaced(ranges, i + 1)

\* impl Display for ByteRanges, from the i-th range on
RECURSIVE fmt_ranges(_, _)
fmt_ranges(ranges, i) ==
    IF i > Len(ranges) THEN <<>>
    ELSE (IF i > 1 THEN <<",">> ELSE <<>>)
         \o ByteRange_to_string(ranges[i]) \o fmt_ranges(ranges, i + 1)

ByteRanges_to_string(self) == RANGE_PREFIX \o fmt_ranges(self.ranges, 1)

ByteRanges_value(self) == ByteRanges_to_string(self)

\* faulty variant: the value is inserted under the name of another header
ByteRanges_apply_wrong_name(self, h) ==
    Headers_insert(h, CONTENT_RANGE, ByteRanges_value(self))

ByteRanges_apply(self, h) == Headers_insert(h, RANGE, ByteRanges_value(self))

----------------------------------------------------------------------------
(* ByteContentRange *)

CONTENT_RANGE_PREFIX == <<"b", "y", "t", "e", "s">>

ByteContentRange_new == [size |-> None, range |-> None]

with_range(self, start, end) ==
    [self EXCEPT !.range = Some(ByteRange_new(Some(start), Some(end)))]

\* faulty variant: the size is set on a fresh value, the range is lost
with_size_fresh(self, size) == [size |-> Some(size), range |-> None]

with_size(self, size) == [self EXCEPT !.size = Some(size)]

\* faulty variant: the error of the wrong header
ByteContentRange_fn_err_range_msg == Err(Error_from_str(RequestedRangeNotSatisfiable, RangeMsg))

\* the fn_err closure of ByteContentRange::from_str
ByteContentRange_fn_err == Err(Error_from_str(RequestedRangeNotSatisfiable, ContentRangeMsg))

\* faulty variant: the size is not compared with the end of the range
ByteContentRange_from_str_any_size(s) ==
    IF ~starts_with(s, CONTENT_RANGE_PREFIX)
    THEN Err(Error_from_str(RequestedRangeNotSatisfiable, ContentRangeMsg))
    ELSE
    LET fn_err == Err(Error_from_str(RequestedRangeNotSatisfiable, ContentRangeMsg))
        items == splitn2(trim_start(skip(s, Len(CONTENT_RANGE_PREFIX))), "/")
        range_s == next(items, 1)
        size_s == next(items, 2)
        range == ByteRange_from_str(unwrap(range_s))
        size == u64_from_str(unwrap(size_s))
    IN IF is_none(range_s) THEN fn_err
       ELSE IF unwrap(range_s) # <<"*">> /\ is_err(range) THEN fn_err
       ELSE IF unwrap(range_s) # <<"*">>
               /\ (is_none(unwrap(range.val).start) \/ is_none(unwrap(range.val).end))
            THEN fn_err
       ELSE IF is_none(size_s) THEN fn_err
       ELSE IF unwrap(size_s) # <<"*">> /\ is_none(size) THEN fn_err
       ELSE IF unwrap(range_s) = <<"*">> /\ unwrap(size_s) = <<"*">> THEN fn_err
       ELSE Ok([size |-> IF unwrap(size_s) # <<"*">> THEN size ELSE None,
                range |-> IF unwrap(range_s) # <<"*">> THEN range.val ELSE None])

ByteContentRange_from_str(s) ==
    LET fn_err == ByteContentRange_fn_err
    IN IF ~starts_with(s, CONTENT_RANGE_PREFIX) THEN fn_err
       ELSE
       LET items == splitn2(trim_start(skip(s, Len(CONTENT_RANGE_PREFIX))), "/")
           range_s == next(items, 1)
           size_s == next(items, 2)
           range == ByteRange_from_str(unwrap(range_s))
           size == u64_from_str(unwrap(size_s))
       IN IF is_none(range_s) THEN fn_err
          ELSE IF unwrap(range_s) # <<"*">> /\ is_err(range) THEN fn_err
          ELSE IF unwrap(range_s) # <<"*">>
                  /\ (is_none(unwrap(range.val).start) \/ is_none(unwrap(range.val).end))
               THEN fn_err
          ELSE IF is_none(size_s) THEN fn_err
          ELSE IF unwrap(size_s) # <<"*">> /\ is_none(size) THEN fn_err
          ELSE
          LET with_r == IF unwrap(range_s) # <<"*">>
                        THEN [ByteContentRange_new EXCEPT !.range = Some(unwrap(range.val))]
                        ELSE ByteContentRange_new
              content_range == IF unwrap(size_s) # <<"*">>
                               THEN with_size(with_r, unwrap(size))
                               ELSE with_r
          IN IF is_none(content_range.range) /\ is_none(content_range.size) THEN fn_err
             ELSE IF is_some(content_range.size) /\ is_some(content_range.range)
                     /\ is_some(unwrap(content_range.range).end)
                     /\ unwrap(content_range.size) <= unwrap(unwrap(content_range.range).end)
                  THEN fn_err
             ELSE Ok(content_range)

\* faulty variant: the unit prefix is not looked at before parsing
ByteContentRange_from_headers_any_unit(h) ==
    LET values == Headers_get(h, CONTENT_RANGE)
    IN IF is_none(values) THEN Ok(None)
       ELSE map_Some(ByteContentRange_from_str(last(unwrap(values))))

ByteContentRange_from_headers(h) ==
    LET values == Headers_get(h, CONTENT_RANGE)
    IN IF is_none(values) THEN Ok(None)
       ELSE LET s == last(unwrap(values))
            IN IF ~starts_with(s, CONTENT_RANGE_PREFIX) THEN Ok(None)
               ELSE map_Some(ByteContentRange_from_str(s))

\* faulty variant: no space written after the unit
ByteContentRange_to_string_no_space(self) ==
    CONTENT_RANGE_PREFIX
    \o (IF is_some(self.range) THEN ByteRange_to_string(unwrap(self.range)) ELSE <<"*">>)
    \o <<"/">>
    \o (IF is_some(self.size) THEN u64_to_string(unwrap(self.size)) ELSE <<"*">>)

\* impl Display for ByteContentRange
ByteContentRange_to_string(self) ==
    CONTENT_RANGE_PREFIX \o <<" ">>
    \o (IF is_some(self.range) THEN ByteRange_to_string(unwrap(self.range)) ELSE <<"*">>)
    \o <<"/">>
    \o (IF is_some(self.size) THEN u64_to_string(unwrap(self.size)) ELSE <<"*">>)

ByteContentRange_value(self) == ByteContentRange_to_string(self)

ByteContentRange_apply(self, h) ==
    Headers_insert(h, CONTENT_RANGE, ByteContentRange_value(self))

----------------------------------------------------------------------------
(* AcceptRanges *)

BYTES == <<"b", "y", "t", "e", "s">>
NONE == <<"n", "o", "n", "e">>

AcceptRanges_new == [bytes |-> FALSE, other |-> None]

with_bytes == [AcceptRanges_new EXCEPT !.bytes = TRUE]

with_other(s) == [AcceptRanges_new EXCEPT !.other = Some(s)]

\* faulty variant: surrounding whitespace is trimmed before the token is matched
AcceptRanges_from_str_trimmed(s) ==
    IF trim(s) = NONE THEN Ok(AcceptRanges_new)
    ELSE IF trim(s) = BYTES THEN Ok(with_bytes)
    ELSE Ok(with_other(trim(s)))

AcceptRanges_from_str(s) ==
    IF s = NONE THEN Ok(AcceptRanges_new)
    ELSE IF s = BYTES THEN Ok(with_bytes)
    ELSE Ok(with_other(s))

\* faulty variant: a missing header is read as the value that accepts no range
AcceptRanges_from_headers_default(h) ==
    LET values == Headers_get(h, ACCEPT_RANGES)
    IN IF is_none(values) THEN Ok(Some(AcceptRanges_new))
       ELSE map_Some(AcceptRanges_from_str(last(unwrap(values))))

AcceptRanges_from_headers(h) ==
    LET values == Headers_get(h, ACCEPT_RANGES)
    IN IF is_none(values) THEN Ok(None)
       ELSE map_Some(AcceptRanges_from_str(last(unwrap(values))))

AcceptRanges_value(self) ==
    IF is_some(self.other) THEN unwrap(self.other)
    ELSE IF self.bytes THEN BYTES
    ELSE NONE

AcceptRanges_to_string(self) ==
    IF is_some(self.other) THEN unwrap(self.other)
    ELSE IF self.bytes THEN BYTES
    ELSE NONE

AcceptRanges_apply(self, h) == Headers_insert(h, ACCEPT_RANGES, AcceptRanges_value(self))

----------------------------------------------------------------------------
(* Wire values received *)

RECURSIVE concat(_)
concat(ts) == IF ts = <<>> THEN <<>> ELSE Head(ts) \o concat(Tail(ts))

\* every concatenation of at most n tokens
Strings(tokens, n) == {concat(ts) : ts \in UNION {[1..k -> tokens] : k \in 0..n}}

BYTE_RANGE == "byte-range"

ByteRangeChars == {<<"0">>, <<"1">>, <<"9">>, <<"-">>, <<"+">>, <<" ">>, <<"a">>}

RangePrefixes == {RANGE_PREFIX, <<"f", "o", "o", "=">>, <<"b", "y", "t", "e", "s">>}
RangeTokens ==
    {<<"0", "-", "1">>, <<"1", "-">>, <<"-", "1">>, <<"1", "-", "1">>, <<"-">>,
     <<",">>, <<" ">>, <<"0">>, <<"+">>}

ContentRangePrefixes == {CONTENT_RANGE_PREFIX, <<"f", "o", "o">>}
ContentRangeTokens ==
    {<<"0", "-", "1">>, <<"1", "-", "0">>, <<"1", "-">>, <<"*">>, <<"/">>,
     <<"5">>, <<"1">>, <<" ">>, <<"0">>, <<"+">>}

AcceptRangesValues ==
    {NONE, BYTES, <<"f", "o", "o">>, <<"N", "o", "n", "e">>, <<"B", "y", "t", "e", "s">>,
     <<>>, <<" ", "b", "y", "t", "e", "s">>, <<"n", "o", "n", "e", " ">>,
     <<"b", "y", "t", "e", "s", ",", "f", "o", "o">>}

WireValues ==
    [name : {BYTE_RANGE}, value : Strings(ByteRangeChars, MaxLen)]
    \cup {[name |-> RANGE, value |-> p \o b] :
            p \in RangePrefixes, b \in Strings(RangeTokens, MaxTokens)}
    \cup {[name |-> CONTENT_RANGE, value |-> p \o b] :
            p \in ContentRangePrefixes, b \in Strings(ContentRangeTokens, MaxTokens)}
    \cup [name : {ACCEPT_RANGES}, value : AcceptRangesValues]

----------------------------------------------------------------------------
(* Parsing and rendering of a received value *)

NoObj == [type |-> "none", v |-> <<>>]
NoWire == [name |-> "none", value |-> <<>>]
NoResult == [op |-> "none", arg |-> None, out |-> Ok(<<>>)]

Init ==
    /\ overflow_checks = TRUE
    /\ wire \in WireValues
    /\ headers = Headers_new
    /\ obj = NoObj
    /\ result = NoResult

\* the value a successful parse returned becomes the current value
parsed(type, out) ==
    IF is_ok(out) THEN [type |-> type, v |-> unwrap(out.val)] ELSE NoObj

ParseByteRange ==
    /\ wire.name = BYTE_RANGE
    /\ result = NoResult
    /\ LET out == ByteRange_from_str(wire.value)
       IN /\ result' = [op |-> "ByteRange::from_str", arg |-> None, out |-> out]
          /\ obj' = parsed("ByteRange", out)
    /\ UNCHANGED <<overflow_checks, wire, headers>>

ParseByteRanges ==
    /\ wire.name = RANGE
    /\ result = NoResult
    /\ LET out == ByteRanges_from_str(wire.value)
       IN /\ result' = [op |-> "ByteRanges::from_str", arg |-> None, out |-> out]
          /\ obj' = parsed("ByteRanges", out)
    /\ UNCHANGED <<overflow_checks, wire, headers>>

\* the value arrives in a message: insert_header(name, value)
InsertHeader ==
    /\ wire.name \in HeaderNames
    /\ headers = Headers_new
    /\ result = NoResult
    /\ headers' = Headers_insert(headers, wire.name, wire.value)
    /\ UNCHANGED <<overflow_checks, wire, obj, result>>

\* Ok(Some(v)) makes v the current value
from_headers_obj(type, out) ==
    IF is_ok(out) /\ is_some(unwrap(out.val))
    THEN [type |-> type, v |-> unwrap(unwrap(out.val))]
    ELSE NoObj

ByteRangesFromHeaders ==
    /\ result = NoResult
    /\ LET out == ByteRanges_from_headers(headers)
       IN /\ result' = [op |-> "ByteRanges::from_headers", arg |-> None, out |-> out]
          /\ obj' = from_headers_obj("ByteRanges", out)
    /\ UNCHANGED <<overflow_checks, wire, headers>>

ParseByteContentRange ==
    /\ wire.name = CONTENT_RANGE
    /\ result = NoResult
    /\ LET out == ByteContentRange_from_str(wire.value)
       IN /\ result' = [op |-> "ByteContentRange::from_str", arg |-> None, out |-> out]
          /\ obj' = parsed("ByteContentRange", out)
    /\ UNCHANGED <<overflow_checks, wire, headers>>

ByteContentRangeFromHeaders ==
    /\ result = NoResult
    /\ LET out == ByteContentRange_from_headers(headers)
       IN /\ result' = [op |-> "ByteContentRange::from_headers", arg |-> None, out |-> out]
          /\ obj' = from_headers_obj("ByteContentRange", out)
    /\ UNCHANGED <<overflow_checks, wire, headers>>

ParseAcceptRanges ==
    /\ wire.name = ACCEPT_RANGES
    /\ result = NoResult
    /\ LET out == AcceptRanges_from_str(wire.value)
       IN /\ result' = [op |-> "AcceptRanges::from_str", arg |-> None, out |-> out]
          /\ obj' = parsed("AcceptRanges", out)
    /\ UNCHANGED <<overflow_checks, wire, headers>>

AcceptRangesFromHeaders ==
    /\ result = NoResult
    /\ LET out == AcceptRanges_from_headers(headers)
       IN /\ result' = [op |-> "AcceptRanges::from_headers", arg |-> None, out |-> out]
          /\ obj' = from_headers_obj("AcceptRanges", out)
    /\ UNCHANGED <<overflow_checks, wire, headers>>

to_string(o) ==
    IF o.type = "ByteRange" THEN ByteRange_to_string(o.v)
    ELSE IF o.type = "ByteRanges" THEN ByteRanges_to_string(o.v)
    ELSE IF o.type = "ByteContentRange" THEN ByteContentRange_to_string(o.v)
    ELSE AcceptRanges_to_string(o.v)

\* render the value just parsed
Render ==
    /\ obj # NoObj
    /\ result.op # "to_string"
    /\ result' = [op |-> "to_string", arg |-> None, out |-> Ok(to_string(obj))]
    /\ UNCHANGED <<overflow_checks, wire, headers, obj>>

Next ==
    \/ ParseByteRange
    \/ ParseByteRanges
    \/ InsertHeader
    \/ (wire.name = RANGE /\ ByteRangesFromHeaders)
    \/ ParseByteContentRange
    \/ (wire.name = CONTENT_RANGE /\ ByteContentRangeFromHeaders)
    \/ ParseAcceptRanges
    \/ (wire.name = ACCEPT_RANGES /\ AcceptRangesFromHeaders)
    \/ Render

Spec == Init /\ [][Next]_vars

----------------------------------------------------------------------------
(* Building values with the constructors and setters, and using them *)

SampleU64 == {0, 1, 5, U64_MAX}
OptionU64 == {None} \cup {Some(n) : n \in SampleU64}
Sizes == SampleU64 \cup {2, 6}
OtherUnits == {<<"f", "o", "o">>, BYTES, NONE, <<>>}

InitBuild ==
    /\ overflow_checks \in BOOLEAN
    /\ wire = NoWire
    /\ headers = Headers_new
    /\ obj = NoObj
    /\ result = NoResult

\* the current value becomes v; nothing has been done with it yet
Becomes(type, v) ==
    /\ obj' = [type |-> type, v |-> v]
    /\ result' = NoResult
    /\ UNCHANGED <<overflow_checks, wire, headers>>

NewByteRange ==
    /\ obj = NoObj
    /\ \E s \in OptionU64, e \in OptionU64 : Becomes("ByteRange", ByteRange_new(s, e))

NewByteRanges ==
    /\ obj = NoObj
    /\ Becomes("ByteRanges", ByteRanges_new)

Push ==
    /\ obj.type = "ByteRanges"
    /\ Len(obj.v.ranges) < MaxRanges
    /\ \E s \in OptionU64, e \in OptionU64 :
         Becomes("ByteRanges", ByteRanges_push(obj.v, s, e))

NewByteContentRange ==
    /\ obj = NoObj
    /\ Becomes("ByteContentRange", ByteContentRange_new)

WithRange ==
    /\ obj.type = "ByteContentRange"
    /\ \E s \in SampleU64, e \in SampleU64 :
         Becomes("ByteContentRange", with_range(obj.v, s, e))

WithSize ==
    /\ obj.type = "ByteContentRange"
    /\ \E n \in SampleU64 : Becomes("ByteContentRange", with_size(obj.v, n))

NewAcceptRanges ==
    /\ obj = NoObj
    /\ Becomes("AcceptRanges", AcceptRanges_new)

WithBytes ==
    /\ obj = NoObj
    /\ Becomes("AcceptRanges", with_bytes)

WithOther ==
    /\ obj = NoObj
    /\ \E s \in OtherUnits : Becomes("AcceptRanges", with_other(s))

MatchSize ==
    /\ obj.type = "ByteRange"
    /\ \E n \in Sizes :
         result' = [op |-> "ByteRange::match_size", arg |-> Some(n),
                    out |-> ByteRange_match_size(obj.v, n, overflow_checks)]
    /\ UNCHANGED <<overflow_checks, wire, headers, obj>>

RangesMatchSize ==
    /\ obj.type = "ByteRanges"
    /\ \E n \in Sizes :
         result' = [op |-> "ByteRanges::match_size", arg |-> Some(n),
                    out |-> ByteRanges_match_size(obj.v, n, overflow_checks)]
    /\ UNCHANGED <<overflow_checks, wire, headers, obj>>

from_str(type, s) ==
    IF type = "ByteRange" THEN ByteRange_from_str(s)
    ELSE IF type = "ByteRanges" THEN ByteRanges_from_str(s)
    ELSE IF type = "ByteContentRange" THEN ByteContentRange_from_str(s)
    ELSE AcceptRanges_from_str(s)

\* parse the string the value was just rendered to
ParseRendered ==
    /\ result.op = "to_string"
    /\ result' = [op |-> "from_str(to_string)", arg |-> Some(unwrap(result.out.val)),
                  out |-> from_str(obj.type, unwrap(result.out.val))]
    /\ UNCHANGED <<overflow_checks, wire, headers, obj>>

NextBuild ==
    \/ NewByteRange
    \/ NewByteRanges
    \/ Push
    \/ NewByteContentRange
    \/ WithRange
    \/ WithSize
    \/ NewAcceptRanges
    \/ WithBytes
    \/ WithOther
    \/ MatchSize
    \/ RangesMatchSize
    \/ Render
    \/ ParseRendered

SpecBuild == InitBuild /\ [][NextBuild]_vars

----------------------------------------------------------------------------
(* A headers container that holds several values under one name *)

HeaderSamples ==
    [n \in HeaderNames |->
        IF n = RANGE
        THEN {RANGE_PREFIX \o <<"0", "-", "1">>, RANGE_PREFIX \o <<"-">>,
              <<"f", "o", "o", "=">> \o <<"0", "-", "1">>}
        ELSE IF n = CONTENT_RANGE
        THEN {CONTENT_RANGE_PREFIX \o <<" ", "0", "-", "1", "/", "5">>,
              CONTENT_RANGE_PREFIX \o <<" ", "*", "/", "*">>,
              <<"f", "o", "o">> \o <<" ", "0", "-", "1", "/", "5">>}
        ELSE IF n = ACCEPT_RANGES
        THEN {NONE, BYTES, <<"f", "o", "o">>}
        ELSE {<<"t", "e", "x", "t">>}]

InitHeaders ==
    /\ overflow_checks = TRUE
    /\ wire = NoWire
    /\ headers = Headers_new
    /\ obj = NoObj
    /\ result = NoResult

AppendHeader ==
    /\ \E n \in HeaderNames : \E v \in HeaderSamples[n] :
         /\ Len(headers[n]) < MaxValues
         /\ headers' = Headers_append(headers, n, v)
    /\ obj' = NoObj
    /\ result' = NoResult
    /\ UNCHANGED <<overflow_checks, wire>>

NextHeaders ==
    \/ AppendHeader
    \/ ByteRangesFromHeaders
    \/ ByteContentRangeFromHeaders
    \/ AcceptRangesFromHeaders

SpecHeaders == InitHeaders /\ [][NextHeaders]_vars

----------------------------------------------------------------------------
(* Claims checked under SpecBuild *)

\* every present bound of r is strictly less than n
bounds_below(r, n) ==
    /\ is_some(r.start) => unwrap(r.start) < n
    /\ is_some(r.end) => unwrap(r.end) < n

\* C1: for every ByteRange r and every size n, n = 0 included, r.match_size(n)
\* returns true if and only if every present bound of r is strictly less than n.
C1_MatchSizeIffBoundsBelow ==
    result.op = "ByteRange::match_size"
        => result.out = Ok(bounds_below(obj.v, unwrap(result.arg)))

\* C10: for every ByteRanges rs and every size n, rs.match_size(n) returns Ok if
\* and only if r.match_size(n) is true for every r in rs, and otherwise returns
\* the error 416 "Invalid Range header for byte ranges".
C10_RangesMatchSizeIffAll ==
    result.op = "ByteRanges::match_size"
        => LET rs == obj.v.ranges
               n == unwrap(result.arg)
               all == \A i \in 1..Len(rs) :
                        ByteRange_match_size(rs[i], n, overflow_checks) = Ok(TRUE)
           IN /\ is_ok(result.out) <=> all
              /\ ~all => result.out
                           = Err(Error_from_str(RequestedRangeNotSatisfiable, RangeMsg))

\* C5 as stated: for every value v built with the public constructors and
\* setters, parsing the rendered string of v succeeds and yields v.
C5_ParseRenderedYieldsValue ==
    result.op = "from_str(to_string)" => result.out = Ok(obj.v)

\* the data-model invariants of section 3 that the parsers enforce
valid_range(r) ==
    /\ is_some(r.start) \/ is_some(r.end)
    /\ (is_some(r.start) /\ is_some(r.end)) => unwrap(r.end) > unwrap(r.start)

valid_value(o) ==
    IF o.type = "ByteRange" THEN valid_range(o.v)
    ELSE IF o.type = "ByteRanges"
    THEN o.v.ranges # <<>> /\ \A i \in 1..Len(o.v.ranges) : valid_range(o.v.ranges[i])
    ELSE IF o.type = "ByteContentRange"
    THEN /\ is_some(o.v.range) \/ is_some(o.v.size)
         /\ is_some(o.v.range) => valid_range(unwrap(o.v.range))
         /\ (is_some(o.v.range) /\ is_some(o.v.size))
                => unwrap(unwrap(o.v.range).end) < unwrap(o.v.size)
    ELSE o.v.other \notin {Some(NONE), Some(BYTES)}

\* C5 amended: for every value v built with the public constructors and setters
\* that satisfies the data-model invariants (a ByteRange with a bound present and,
\* with both, end > start; a non-empty ByteRanges of such ranges; a
\* ByteContentRange with range or size present, range.end > range.start and
\* range.end < size; an AcceptRanges whose other-unit is neither "none" nor
\* "bytes"), parsing the rendered string of v succeeds and yields v.
C5_ParseRenderedYieldsValidValue ==
    (result.op = "from_str(to_string)" /\ valid_value(obj)) => result.out = Ok(obj.v)

C5_Witness ==
    /\ result.op = "from_str(to_string)"
    /\ obj.type = "ByteRanges"
    /\ Len(obj.v.ranges) = 2
    /\ valid_value(obj)
    /\ is_none(obj.v.ranges[2].start)
    /\ result.out = Ok(obj.v)

----------------------------------------------------------------------------
(* Claims checked under Spec *)

\* C2: parsing a Range value that has the bytes= prefix and nothing, or only
\* whitespace, after it fails with status 400 Bad Request and the message
\* "Invalid Range header for byte ranges", not with status 416.
C2_EmptyListIsBadRequest ==
    (/\ result.op = "ByteRanges::from_str"
     /\ starts_with(wire.value, RANGE_PREFIX)
     /\ \A i \in (Len(RANGE_PREFIX) + 1)..Len(wire.value) : is_whitespace(wire.value[i]))
        => result.out = Err(Error_from_str(BadRequest, RangeMsg))

\* the two fields of a byte-range string: around the first '-', after trimming
start_field(s) == splitn2(trim(s), "-")[1]
end_field(s) == IF Len(splitn2(trim(s), "-")) = 2 THEN splitn2(trim(s), "-")[2] ELSE <<>>

RECURSIVE decimal_value(_)
decimal_value(f) ==
    IF f = <<>> THEN 0
    ELSE 10 * decimal_value(SubSeq(f, 1, Len(f) - 1)) + to_digit(f[Len(f)])

\* f is a decimal unsigned integer of the u64 width: digits only, value <= u64::MAX
is_decimal_u64(f) ==
    /\ f # <<>>
    /\ \A i \in 1..Len(f) : is_ascii_digit(f[i])
    /\ decimal_value(f) <= U64_MAX

\* C3: ByteRange parsing fails with status 416 and the message "Invalid Range
\* header for byte ranges" when both bounds are absent, when a non-empty field is
\* not a decimal u64 (non-digits, or a value above u64::MAX), and when both
\* bounds are present and end <= start.
C3_ByteRangeRejects ==
    LET a == start_field(wire.value)
        b == end_field(wire.value)
    IN (/\ result.op = "ByteRange::from_str"
        /\ \/ a = <<>> /\ b = <<>>
           \/ a # <<>> /\ ~is_decimal_u64(a)
           \/ b # <<>> /\ ~is_decimal_u64(b)
           \/ /\ is_decimal_u64(a)
              /\ is_decimal_u64(b)
              /\ decimal_value(b) <= decimal_value(a))
        => result.out = Err(Error_from_str(RequestedRangeNotSatisfiable, RangeMsg))

\* the two fields of a Content-Range value: after the prefix, around the first '/'
content_fields(s) == splitn2(trim_start(skip(s, Len(CONTENT_RANGE_PREFIX))), "/")

\* the left field is a ByteRange that parses with both start and end present
closed_range(f) ==
    /\ is_ok(ByteRange_from_str(f))
    /\ is_some(unwrap(ByteRange_from_str(f).val).start)
    /\ is_some(unwrap(ByteRange_from_str(f).val).end)

\* one of the cases C4 lists
content_range_rejected(s) ==
    \/ ~starts_with(s, CONTENT_RANGE_PREFIX)
    \/ Len(content_fields(s)) < 2
    \/ LET left == content_fields(s)[1]
           right == content_fields(s)[2]
       IN \/ left # <<"*">> /\ ~closed_range(left)
          \/ right # <<"*">> /\ is_none(u64_from_str(right))
          \/ left = <<"*">> /\ right = <<"*">>
          \/ /\ left # <<"*">> /\ closed_range(left)
             /\ right # <<"*">> /\ is_some(u64_from_str(right))
             /\ unwrap(u64_from_str(right)) <= unwrap(unwrap(ByteRange_from_str(left).val).end)

\* C4: ByteContentRange string parsing fails, always with status 416 and the
\* message "Invalid Content-Range value", when the value does not start with
\* bytes, has no '/', has a left field that is neither * nor a ByteRange with both
\* bounds, has a right field that is neither * nor a u64, is */*, or has
\* size <= range.end; and it fails with no other status or message.
C4_ContentRangeRejects ==
    result.op = "ByteContentRange::from_str"
        => /\ content_range_rejected(wire.value)
                => result.out
                     = Err(Error_from_str(RequestedRangeNotSatisfiable, ContentRangeMsg))
           /\ is_err(result.out)
                => /\ unwrap(result.out.err).status = RequestedRangeNotSatisfiable
                   /\ unwrap(result.out.err).msg = ContentRangeMsg

C4_Witness ==
    /\ result.op = "ByteContentRange::from_str"
    /\ starts_with(wire.value, CONTENT_RANGE_PREFIX)
    /\ Len(content_fields(wire.value)) = 2
    /\ closed_range(content_fields(wire.value)[1])
    /\ is_some(u64_from_str(content_fields(wire.value)[2]))
    /\ unwrap(u64_from_str(content_fields(wire.value)[2])) = 1
    /\ result.out = Err(Error_from_str(RequestedRangeNotSatisfiable, ContentRangeMsg))

RECURSIVE strip_whitespace(_)
strip_whitespace(s) ==
    IF s = <<>> THEN <<>>
    ELSE IF is_whitespace(Head(s)) THEN strip_whitespace(Tail(s))
    ELSE <<Head(s)>> \o strip_whitespace(Tail(s))

\* w with insignificant whitespace stripped and comma spacing normalized: no
\* whitespace in a Range value, one space after bytes in a Content-Range value;
\* an Accept-Ranges token has no insignificant whitespace
canonicalize(w) ==
    IF w.name = RANGE THEN strip_whitespace(w.value)
    ELSE IF w.name = CONTENT_RANGE
    THEN CONTENT_RANGE_PREFIX \o <<" ">>
         \o strip_whitespace(skip(w.value, Len(CONTENT_RANGE_PREFIX)))
    ELSE w.value

WireHeaders == {RANGE, CONTENT_RANGE, ACCEPT_RANGES}

\* C6 as stated: for every wire value w that the parser of Range, Content-Range
\* or Accept-Ranges accepts, rendering the parsed value yields w with only
\* insignificant whitespace stripped and comma spacing normalized, and no other
\* change.
C6_RenderParsedIsCanonical ==
    (result.op = "to_string" /\ wire.name \in WireHeaders)
        => unwrap(result.out.val) = canonicalize(wire)

\* the length of the run of number characters (digits, '+') s starts with
RECURSIVE number_run(_)
number_run(s) ==
    IF s # <<>> /\ (is_ascii_digit(Head(s)) \/ Head(s) = "+")
    THEN 1 + number_run(Tail(s))
    ELSE 0

RECURSIVE strip_zeros(_)
strip_zeros(ds) == IF Len(ds) > 1 /\ Head(ds) = "0" THEN strip_zeros(Tail(ds)) ELSE ds

\* a number without its '+' sign and leading zeros
canonical_number(run) == strip_zeros(IF Head(run) = "+" THEN Tail(run) ELSE run)

\* s with every number in it made canonical
RECURSIVE canonical_numbers(_)
canonical_numbers(s) ==
    IF s = <<>> THEN <<>>
    ELSE IF number_run(s) = 0 THEN <<Head(s)>> \o canonical_numbers(Tail(s))
    ELSE canonical_number(SubSeq(s, 1, number_run(s)))
         \o canonical_numbers(skip(s, number_run(s)))

\* the fragments joined by ',', each given the '-' it lacks
RECURSIVE dashed(_, _)
dashed(frags, i) ==
    IF i > Len(frags) THEN <<>>
    ELSE (IF i > 1 THEN <<",">> ELSE <<>>)
         \o frags[i] \o (IF find(frags[i], "-") = 0 THEN <<"-">> ELSE <<>>)
         \o dashed(frags, i + 1)

rendered_form(w) ==
    IF w.name = RANGE
    THEN RANGE_PREFIX
         \o dashed(split(canonical_numbers(strip_whitespace(skip(w.value, Len(RANGE_PREFIX)))),
                         ","), 1)
    ELSE IF w.name = CONTENT_RANGE
    THEN canonical_numbers(canonicalize(w))
    ELSE w.value

\* C6 amended: for every wire value w that the parser of Range or Content-Range
\* accepts, rendering the parsed value yields w with whitespace stripped (one
\* space after bytes in Content-Range), comma spacing normalized, and every bound
\* and size rewritten as its canonical decimal number: a leading '+' and leading
\* zeros dropped, and a Range fragment without '-' rendered as "<start>-"; for
\* Accept-Ranges rendering yields w unchanged.
C6_RenderParsedIsCanonicalNumbers ==
    (result.op = "to_string" /\ wire.name \in WireHeaders)
        => unwrap(result.out.val) = rendered_form(wire)

C6_Witness ==
    /\ result.op = "to_string"
    /\ wire.name = RANGE
    /\ \E i \in 1..Len(wire.value) : wire.value[i] = " "
    /\ \E i \in 1..Len(wire.value) : wire.value[i] = ","
    /\ unwrap(result.out.val) = strip_whitespace(wire.value)

\* the first fragment of the Range value s that is no valid ByteRange, 0 if none
first_invalid(frags) ==
    IF \E i \in 1..Len(frags) : is_err(ByteRange_from_str(frags[i]))
    THEN CHOOSE i \in 1..Len(frags) :
           /\ is_err(ByteRange_from_str(frags[i]))
           /\ \A j \in 1..(i - 1) : is_ok(ByteRange_from_str(frags[j]))
    ELSE 0

\* C7: ByteRanges::from_headers on a container whose last Range value does not
\* start with bytes= returns Ok(None), never an error; when it starts with bytes=
\* and a comma-separated fragment is no valid ByteRange, it returns the per-range
\* error unchanged (status 416).
C7_UnknownUnitAbsentBadRangeError ==
    (result.op = "ByteRanges::from_headers" /\ headers[RANGE] # <<>>)
        => LET s == headers[RANGE][Len(headers[RANGE])]
               frags == split(trim_start(skip(s, Len(RANGE_PREFIX))), ",")
           IN /\ ~starts_with(s, RANGE_PREFIX) => result.out = Ok(None)
              /\ (starts_with(s, RANGE_PREFIX) /\ first_invalid(frags) # 0)
                   => /\ result.out = ByteRange_from_str(frags[first_invalid(frags)])
                      /\ unwrap(result.out.err).status = RequestedRangeNotSatisfiable

C7_Witness ==
    /\ result.op = "ByteRanges::from_headers"
    /\ headers[RANGE] # <<>>
    /\ starts_with(headers[RANGE][1], RANGE_PREFIX)
    /\ first_invalid(split(trim_start(skip(headers[RANGE][1], Len(RANGE_PREFIX))), ",")) = 2
    /\ find(split(trim_start(skip(headers[RANGE][1], Len(RANGE_PREFIX))), ",")[1], "-") # 0
    /\ is_err(result.out)

\* C8: for a Content-Range value that does not start with bytes,
\* ByteContentRange::from_headers returns Ok(None) while from_str on the same
\* string returns an error with status 416; for a value that starts with bytes,
\* from_headers returns exactly the result of from_str.
C8_FromHeadersVersusFromStr ==
    (result.op = "ByteContentRange::from_headers" /\ headers[CONTENT_RANGE] # <<>>)
        => LET s == headers[CONTENT_RANGE][Len(headers[CONTENT_RANGE])]
               parsed_s == ByteContentRange_from_str(s)
           IN IF starts_with(s, CONTENT_RANGE_PREFIX)
              THEN /\ is_ok(parsed_s) => result.out = Ok(Some(unwrap(parsed_s.val)))
                   /\ is_err(parsed_s) => result.out = parsed_s
              ELSE /\ result.out = Ok(None)
                   /\ is_err(parsed_s)
                   /\ unwrap(parsed_s.err).status = RequestedRangeNotSatisfiable

C8_Witness ==
    /\ result.op = "ByteContentRange::from_headers"
    /\ headers[CONTENT_RANGE] # <<>>
    /\ ~starts_with(headers[CONTENT_RANGE][1], CONTENT_RANGE_PREFIX)
    /\ Len(headers[CONTENT_RANGE][1]) > 3
    /\ result.out = Ok(None)

----------------------------------------------------------------------------
(* Claims checked under SpecHeaders *)

\* the container that holds, under name n, only the last of the values h holds
only_last(h, n) == [Headers_new EXCEPT ![n] = <<h[n][Len(h[n])]>>]

\* C9: for each of AcceptRanges, ByteRanges and ByteContentRange and every
\* container holding two or more values under the header name, from_headers
\* returns the result determined by the last value alone.
C9_LastValueWins ==
    /\ (result.op = "ByteRanges::from_headers" /\ Len(headers[RANGE]) >= 2)
         => result.out = ByteRanges_from_headers(only_last(headers, RANGE))
    /\ (result.op = "ByteContentRange::from_headers" /\ Len(headers[CONTENT_RANGE]) >= 2)
         => result.out = ByteContentRange_from_headers(only_last(headers, CONTENT_RANGE))
    /\ (result.op = "AcceptRanges::from_headers" /\ Len(headers[ACCEPT_RANGES]) >= 2)
         => result.out = AcceptRanges_from_headers(only_last(headers, ACCEPT_RANGES))

C9_Witness ==
    /\ result.op = "ByteRanges::from_headers"
    /\ Len(headers[RANGE]) = 2
    /\ headers[RANGE][1] = RANGE_PREFIX \o <<"-">>
    /\ headers[RANGE][2] = RANGE_PREFIX \o <<"0", "-", "1">>
    /\ result.out = Ok(Some([ranges |-> <<ByteRange_new(Some(0), Some(1))>>]))

----------------------------------------------------------------------------
(* Accept-Ranges tokens: claim checked under Spec *)

\* C11: AcceptRanges parsing never fails: the exact token none yields unit
\* absent, the exact token bytes yields the bytes unit, and any other string
\* (case-sensitive) yields the other-variant carrying that string unchanged;
\* rendering maps unit absent to none, bytes to bytes, and other(s) to s.
C11_AcceptRangesTokens ==
    /\ result.op = "AcceptRanges::from_str"
         => /\ is_ok(result.out)
            /\ wire.value = <<"n", "o", "n", "e">>
                 => unwrap(result.out.val) = [bytes |-> FALSE, other |-> <<>>]
            /\ wire.value = <<"b", "y", "t", "e", "s">>
                 => unwrap(result.out.val) = [bytes |-> TRUE, other |-> <<>>]
            /\ wire.value \notin {<<"n", "o", "n", "e">>, <<"b", "y", "t", "e", "s">>}
                 => unwrap(result.out.val) = [bytes |-> FALSE, other |-> <<wire.value>>]
    /\ (result.op = "to_string" /\ obj.type = "AcceptRanges")
         => /\ obj.v = [bytes |-> FALSE, other |-> <<>>]
                 => unwrap(result.out.val) = <<"n", "o", "n", "e">>
            /\ obj.v = [bytes |-> TRUE, other |-> <<>>]
                 => unwrap(result.out.val) = <<"b", "y", "t", "e", "s">>
            /\ obj.v.other # <<>> => unwrap(result.out.val) = obj.v.other[1]

C11_Witness ==
    /\ result.op = "to_string"
    /\ wire.name = ACCEPT_RANGES
    /\ wire.value = <<"B", "y", "t", "e", "s">>
    /\ obj.v = [bytes |-> FALSE, other |-> <<wire.value>>]
    /\ unwrap(result.out.val) = wire.value

----------------------------------------------------------------------------
(* Canonical rendering: claim checked under SpecBuild *)

\* f is the decimal numeral of n: digits only, no leading zero, value n
is_numeral_of(f, n) ==
    /\ f # <<>>
    /\ \A i \in 1..Len(f) : is_ascii_digit(f[i])
    /\ Len(f) > 1 => f[1] # "0"
    /\ decimal_value(f) = n

\* f is the text of the bound o: empty when absent, its numeral when present
is_bound_text(f, o) == IF o = <<>> THEN f = <<>> ELSE is_numeral_of(f, o[1])

\* s is "<start>-<end>" for the range r
is_range_text(s, r) ==
    \E i \in 1..Len(s) :
        /\ s[i] = "-"
        /\ is_bound_text(SubSeq(s, 1, i - 1), r.start)
        /\ is_bound_text(SubSeq(s, i + 1, Len(s)), r.end)

\* s is bytes= followed by the texts of the ranges rs, in order, joined by ','
is_ranges_text(s, rs) ==
    /\ Len(s) >= 6
    /\ SubSeq(s, 1, 6) = <<"b", "y", "t", "e", "s", "=">>
    /\ IF rs = <<>> THEN Len(s) = 6
       ELSE LET items == split(SubSeq(s, 7, Len(s)), ",")
            IN /\ Len(items) = Len(rs)
               /\ \A i \in 1..Len(rs) : is_range_text(items[i], rs[i])

\* s is bytes, one space, the range or *, '/', the size or *
is_content_range_text(s, v) ==
    /\ Len(s) >= 6
    /\ SubSeq(s, 1, 6) = <<"b", "y", "t", "e", "s", " ">>
    /\ \E i \in 7..Len(s) :
          /\ s[i] = "/"
          /\ IF v.range = <<>> THEN SubSeq(s, 7, i - 1) = <<"*">>
             ELSE is_range_text(SubSeq(s, 7, i - 1), v.range[1])
          /\ IF v.size = <<>> THEN SubSeq(s, i + 1, Len(s)) = <<"*">>
             ELSE is_numeral_of(SubSeq(s, i + 1, Len(s)), v.size[1])

\* C12: rendering produces exactly the canonical forms: a ByteRange renders as
\* "<start>-<end>" with an absent bound rendered as the empty string; a
\* ByteRanges renders as bytes= followed by its ranges in push order joined by a
\* single ',' with no space; a ByteContentRange renders as bytes, one space, the
\* range or *, '/', the size or *.
C12_RenderingIsCanonical ==
    result.op = "to_string"
        => LET s == unwrap(result.out.val)
           IN /\ obj.type = "ByteRange" => is_range_text(s, obj.v)
              /\ obj.type = "ByteRanges" => is_ranges_text(s, obj.v.ranges)
              /\ obj.type = "ByteContentRange" => is_content_range_text(s, obj.v)

C12_Witness ==
    /\ result.op = "to_string"
    /\ obj.type = "ByteContentRange"
    /\ obj.v.range = <<[start |-> <<0>>, end |-> <<1>>]>>
    /\ obj.v.size = <<5>>
    /\ unwrap(result.out.val)
         = <<"b", "y", "t", "e", "s", " ", "0", "-", "1", "/", "5">>

----------------------------------------------------------------------------
(* Writing values to a headers container that already holds values *)

\* the values a message holds under a name before anything is applied
PriorValues(n) ==
    LET samples == IF n = RANGE
                   THEN {RANGE_PREFIX \o <<"0", "-", "1">>, <<"f", "o", "o", "=">>}
                   ELSE IF n = CONTENT_RANGE
                   THEN {CONTENT_RANGE_PREFIX \o <<" ", "*", "/", "5">>, <<"f", "o", "o">>}
                   ELSE IF n = ACCEPT_RANGES THEN {NONE, BYTES}
                   ELSE {<<"t", "e", "x", "t">>}
    IN UNION {[1..k -> samples] : k \in 0..MaxValues}

\* the values applied
AppliedByteRanges ==
    {ByteRanges_new,
     ByteRanges_push(ByteRanges_new, Some(0), Some(1)),
     ByteRanges_push(ByteRanges_push(ByteRanges_new, Some(0), Some(1)), None, Some(5))}
AppliedByteContentRanges ==
    {with_size(ByteContentRange_new, 5),
     with_size(with_range(ByteContentRange_new, 0, 1), 5)}
AppliedAcceptRanges == {AcceptRanges_new, with_bytes, with_other(<<"f", "o", "o">>)}

\* obj.v[n] is the value most recently applied for the name n, if any
NoneApplied == [type |-> "Applied", v |-> [n \in HeaderNames |-> None]]

InitApply ==
    /\ overflow_checks = TRUE
    /\ wire = NoWire
    /\ headers \in {[n \in HeaderNames |->
                        IF n = RANGE THEN r
                        ELSE IF n = CONTENT_RANGE THEN c
                        ELSE IF n = ACCEPT_RANGES THEN a
                        ELSE o] :
                     r \in PriorValues(RANGE), c \in PriorValues(CONTENT_RANGE),
                     a \in PriorValues(ACCEPT_RANGES), o \in PriorValues(OTHER_HEADER)}
    /\ obj = NoneApplied
    /\ result = NoResult

\* the value of the given type was applied for the name n
Applied(n, type, v) ==
    /\ obj' = [obj EXCEPT !.v[n] = Some([type |-> type, v |-> v])]
    /\ result' = [op |-> "apply", arg |-> Some(n), out |-> Ok(<<>>)]
    /\ UNCHANGED <<overflow_checks, wire>>

ApplyByteRanges ==
    \E v \in AppliedByteRanges :
        /\ headers' = ByteRanges_apply(v, headers)
        /\ Applied(RANGE, "ByteRanges", v)

ApplyByteContentRange ==
    \E v \in AppliedByteContentRanges :
        /\ headers' = ByteContentRange_apply(v, headers)
        /\ Applied(CONTENT_RANGE, "ByteContentRange", v)

ApplyAcceptRanges ==
    \E v \in AppliedAcceptRanges :
        /\ headers' = AcceptRanges_apply(v, headers)
        /\ Applied(ACCEPT_RANGES, "AcceptRanges", v)

NextApply ==
    \/ ApplyByteRanges
    \/ ApplyByteContentRange
    \/ ApplyAcceptRanges

SpecApply == InitApply /\ [][NextApply]_vars

\* the container holds exactly the rendering of each value last applied
applied_values_held ==
    \A n \in HeaderNames :
        obj.v[n] # <<>> => headers[n] = <<to_string(obj.v[n][1])>>

\* a step that applies a value keeps the values under every other name
other_names_kept ==
    result'.op = "apply"
        => \A n \in HeaderNames : n # result'.arg[1] => headers'[n] = headers[n]

\* C13: after any sequence of apply calls on a headers container, the container
\* holds under each of the names Range, Content-Range and Accept-Ranges exactly
\* one value, equal to the rendering of the value most recently applied for that
\* name; an apply never changes the values stored under any other header name.
C13_ApplyReplacesOnlyItsHeader ==
    [](applied_values_held) /\ [][other_names_kept]_vars

C13_Witness ==
    /\ result.op = "apply"
    /\ obj.v[RANGE] # <<>>
    /\ obj.v[RANGE][1].v.ranges = <<>>
    /\ headers[RANGE] = <<RANGE_PREFIX>>
    /\ obj.v[CONTENT_RANGE] # <<>>
    /\ headers[CONTENT_RANGE] = <<CONTENT_RANGE_PREFIX \o <<" ", "0", "-", "1", "/", "5">> >>
    /\ obj.v[ACCEPT_RANGES] = <<>>
    /\ Len(headers[ACCEPT_RANGES]) = 2
    /\ Len(headers[OTHER_HEADER]) = 2

----------------------------------------------------------------------------
(* Missing headers: claim checked under SpecHeaders *)

\* C14: for each of AcceptRanges, ByteRanges and ByteContentRange, from_headers
\* on a container that has no value under the target header name returns
\* Ok(None) and no error, whatever other headers the container holds.
C14_MissingHeaderIsAbsent ==
    /\ (result.op = "ByteRanges::from_headers" /\ headers[RANGE] = <<>>)
         => result.out = Ok(<<>>)
    /\ (result.op = "ByteContentRange::from_headers" /\ headers[CONTENT_RANGE] = <<>>)
         => result.out = Ok(<<>>)
    /\ (result.op = "AcceptRanges::from_headers" /\ headers[ACCEPT_RANGES] = <<>>)
         => result.out = Ok(<<>>)

C14_Witness ==
    /\ result.op = "AcceptRanges::from_headers"
    /\ headers[ACCEPT_RANGES] = <<>>
    /\ headers[RANGE] # <<>>
    /\ headers[CONTENT_RANGE] # <<>>
    /\ headers[OTHER_HEADER] # <<>>
    /\ result.out = Ok(<<>>)

----------------------------------------------------------------------------
(* The bounds a ByteRange parse returns: claims checked under Spec *)

\* the bound a field denotes: absent when empty, else its decimal value read
\* with an optional '+' sign (-1 when the field is no number)
field_bound(f) ==
    IF f = <<>> THEN <<>>
    ELSE LET ds == IF f[1] = "+" THEN Tail(f) ELSE f
         IN IF ds # <<>> /\ \A i \in 1..Len(ds) : is_ascii_digit(ds[i])
            THEN <<decimal_value(ds)>>
            ELSE <<-1>>

has_dash(s) == \E i \in 1..Len(s) : s[i] = "-"

\* C15: every successful ByteRange parse of "A-B" returns start = A when A is
\* non-empty and absent when A is empty, end = B likewise; hence every parsed
\* ByteRange has at least one bound present and, when both are present,
\* end > start.
C15_ParsedBoundsAreTheFields ==
    (result.op = "ByteRange::from_str" /\ result.out.kind = "Ok")
        => LET r == result.out.val[1]
           IN /\ has_dash(wire.value)
                   => /\ r.start = field_bound(start_field(wire.value))
                      /\ r.end = field_bound(end_field(wire.value))
              /\ r.start # <<>> \/ r.end # <<>>
              /\ (r.start # <<>> /\ r.end # <<>>) => r.end[1] > r.start[1]

C15_Witness ==
    /\ result.op = "ByteRange::from_str"
    /\ wire.value = <<" ", "-", "1">>
    /\ result.out.kind = "Ok"
    /\ result.out.val[1] = [start |-> <<>>, end |-> <<1>>]

\* C18: ByteRange parsing accepts only inputs that contain the '-' separator:
\* every input with no '-' character (a bare number such as "5") is rejected
\* with status 416 rather than parsed as a range.
C18_DashRequired ==
    (result.op = "ByteRange::from_str" /\ ~has_dash(wire.value))
        => /\ result.out.kind = "Err"
           /\ result.out.err[1].status = 416

----------------------------------------------------------------------------
(* Builder setters: claims checked under SpecBuild *)

\* C16: along any sequence of builder setter calls, information is only added:
\* ByteRanges::push increases the length by exactly one, places the new range
\* last and leaves all earlier ranges and their order unchanged;
\* ByteContentRange::with_size leaves the range unchanged and with_range leaves
\* the size unchanged; a range or size that is present never becomes absent.
C16_SettersOnlyAdd ==
    [][/\ Push => /\ Len(obj'.v.ranges) = Len(obj.v.ranges) + 1
                  /\ \E st \in OptionU64, en \in OptionU64 :
                        obj'.v.ranges[Len(obj'.v.ranges)] = [start |-> st, end |-> en]
                  /\ \A i \in 1..Len(obj.v.ranges) : obj'.v.ranges[i] = obj.v.ranges[i]
       /\ WithSize => obj'.v.range = obj.v.range
       /\ WithRange => obj'.v.size = obj.v.size
       /\ (WithSize \/ WithRange)
            => /\ obj.v.range # <<>> => obj'.v.range # <<>>
               /\ obj.v.size # <<>> => obj'.v.size # <<>>]_vars

C16_Witness ==
    /\ obj.type = "ByteContentRange"
    /\ result = NoResult
    /\ obj.v.range = <<[start |-> <<1>>, end |-> <<5>>]>>
    /\ obj.v.size = <<0>>

\* the data-model invariant of ByteContentRange
content_range_invariant(v) ==
    /\ v.range # <<>> \/ v.size # <<>>
    /\ v.range # <<>> => (v.range[1].start # <<>> /\ v.range[1].end # <<>>)
    /\ (v.range # <<>> /\ v.size # <<>> /\ v.range[1].end # <<>>)
         => v.range[1].end[1] < v.size[1]

====
